---- MODULE Spec2Model ----
(***************************************************************************)
(* State-machine model of src/index.js: the HotwordDetector facade over a  *)
(* capture source (node-audiorecorder) and a detection engine (snowboy).   *)
(*                                                                         *)
(* JavaScript objects that the code shares by reference are modelled as    *)
(* variables holding the object's current field values; a reference to    *)
(* such an object is a name or an id that is dereferenced when read.       *)
(***************************************************************************)
EXTENDS Integers, Sequences, FiniteSets, TLC

----------------------------------------------------------------------------
(* Bounds of the model.                                                     *)

MaxListeners == 2
MaxDetectors == 2
MaxModels == 2

----------------------------------------------------------------------------
(* Values.                                                                  *)

\* The absent reference (undefined), the value of an unassigned `let`.
NULL == 0

\* Capture parameters fixed by the constructor, src/index.js:90-91.
SampleRate == 16000
Threshold == 0

\* The capture program used when none is given, src/index.js:89.
DefaultProgram == "rec"

\* Literal of src/index.js:10-13.
BuiltinModel ==
  [file |-> "./node_modules/snowboy/resources/snowboy.umdl", hotwords |-> "snowboy"]

\* Literal of src/index.js:14-16.
BuiltinDetector ==
  [resource |-> "./node_modules/snowboy/resources/common.res"]

\* The message of the error handler, src/index.js:36.
DetectorErrorMessage == "HotwordDetector: Detector error."

\* The four signals of the detection engine that setupDetector subscribes to.
Signals == {"error", "hotword", "silence", "sound"}

\* A logger argument: absent, or an object with log and warn.
NoLogger == "undefined"
Loggers == {NoLogger, "console"}

Max(a, b) == IF a >= b THEN a ELSE b

\* Object.assign(target, source) on the field values: every field of source
\* overwrites or is added to target; the other fields of target are kept.
\* An absent source is the record without fields, << >>.
Assign(target, source) ==
  [f \in (DOMAIN target) \cup (DOMAIN source) |->
     IF f \in DOMAIN source THEN source[f] ELSE target[f]]

----------------------------------------------------------------------------
(* Inputs.                                                                  *)

\* Model specs a caller passes: each sets some of the fields of a model.
ModelSpecs ==
  { [file |-> "alexa.umdl"],
    [hotwords |-> "alexa"],
    [sensitivity |-> "0.6"] }

RECURSIVE SeqsUpTo(_, _)
SeqsUpTo(S, n) ==
  IF n = 0 THEN { << >> }
  ELSE LET shorter == SeqsUpTo(S, n - 1)
       IN  shorter \cup { Append(s, x) : s \in { t \in shorter : Len(t) = n - 1 }, x \in S }

\* modelData: a sequence of 0..MaxModels model specs (an absent modelData
\* takes the same branch as the empty sequence, src/index.js:77).
ModelDataInputs == SeqsUpTo(ModelSpecs, MaxModels)

\* detectorData: absent, or a detector override.
DetectorDataInputs ==
  { << >>, [audioGain |-> "2.0"], [resource |-> "custom.res"] }

\* recordingProgram: absent (falsy), or a program name.
ProgramInputs == { "", "arecord" }

\* Payloads the detection engine raises its signals with.
SignalArgs(sig) ==
  CASE sig = "hotword" -> { <<1, "alexa", "buf1">> }
    [] sig = "sound"   -> { <<"buf2">> }
    [] OTHER           -> { << >> }

\* Whether an 'error' listener is registered matters to the error signal only.
ListenedChoices(sig) ==
  IF sig = "error" THEN BOOLEAN ELSE { FALSE }

----------------------------------------------------------------------------
(* State.                                                                   *)

VARIABLES
  defaultModel,     \* the module-level object defaultModel (its field values)
  defaultDetector,  \* the module-level object defaultDetector (its field values)
  audioRecorder,    \* module-level: id of the current AudioRecorder, or NULL
  models,           \* module-level: id of the current Models collection, or NULL
  detector,         \* module-level: id of the current Detector, or NULL
  detectorOptions,  \* module-level: reference to the options object, or NULL
  instances,        \* the HotwordDetector objects constructed: [logger]
  modelsHeap,       \* the Models collections created: each a sequence of references
  recorders,        \* the AudioRecorder objects created: [options, logger]
  detectors,        \* the Detector objects created: [options, handlers, resets]
  pipes,            \* the connections stream -> detector: <<recorder id, detector id>>
  lstate,           \* per instance: the lifecycle state its last method call implies
  conn,             \* per instance: the detector its last start()/resume() created
  given,            \* per instance: the arguments its constructor was called with
  phase,            \* monitor of the call history of the process
  out               \* what the last step did: calls made (and, in steps, their
                    \* order), events emitted, result

vars == << defaultModel, defaultDetector, audioRecorder, models, detector,
           detectorOptions, instances, modelsHeap, recorders, detectors, pipes,
           lstate, conn, given, phase, out >>

\* The record of a step that did nothing observable.
NoOut ==
  [op |-> "none", self |-> NULL, det |-> NULL, sig |-> "none", args |-> << >>,
   listened |-> FALSE, emits |-> << >>, logs |-> << >>, cmds |-> << >>,
   steps |-> << >>, ret |-> NULL, threw |-> FALSE]

\* Dereference of a reference to one of the two module-level objects.
Deref(ref) ==
  IF ref = "defaultModel" THEN defaultModel ELSE defaultDetector

\* The field values, read now, of the entries of the Models collection m.
Resolved(m) ==
  [i \in 1..Len(modelsHeap[m]) |-> Deref(modelsHeap[m][i])]

Init ==
  /\ defaultModel = BuiltinModel
  /\ defaultDetector = BuiltinDetector
  /\ audioRecorder = NULL
  /\ models = NULL
  /\ detector = NULL
  /\ detectorOptions = NULL
  /\ instances = << >>
  /\ modelsHeap = << >>
  /\ recorders = << >>
  /\ detectors = << >>
  /\ pipes = {}
  /\ lstate = << >>
  /\ conn = << >>
  /\ given = << >>
  /\ phase = [tag |-> "constructing", self |-> NULL, first |-> NULL]
  /\ out = NoOut

----------------------------------------------------------------------------
(* new HotwordDetector(modelData, detectorData, recordingProgram, logger)   *)

\* Number of passes of the loop of src/index.js:80: the length of modelData
\* after the default has been substituted for an empty one.
ModelCount(modelData) ==
  IF Len(modelData) < 1 THEN 1 ELSE Len(modelData)

\* The field values of defaultModel after passes 1..i of the loop: pass k
\* assigns modelData[k] onto the object defaultModel itself. With an empty
\* modelData the one source is defaultModel, assigned onto itself.
RECURSIVE MergedDefault(_, _, _)
MergedDefault(dm, modelData, i) ==
  IF i = 0 THEN dm
  ELSE LET before == MergedDefault(dm, modelData, i - 1)
           source == IF Len(modelData) < 1 THEN before ELSE modelData[i]
       IN  Assign(before, source)

\* What models.add receives in each pass: the value Object.assign returns,
\* which is its target, the object defaultModel.
AddedModels(modelData) ==
  [i \in 1..ModelCount(modelData) |-> "defaultModel"]

\* Recorder options without the default program.
RecorderOptionsWithoutDefault(recordingProgram) ==
  [program    |-> recordingProgram,
   sampleRate |-> SampleRate,
   threshold  |-> Threshold]

\* The options the AudioRecorder is built with.
RecorderOptions(recordingProgram) ==
  [program    |-> IF recordingProgram # "" THEN recordingProgram ELSE DefaultProgram,
   sampleRate |-> SampleRate,
   threshold  |-> Threshold]

LogCall(logger, level, message) ==
  [logger |-> logger, level |-> level, message |-> message]

\* A method that never logs.
LogIfNever(logger, message) ==
  << >>

\* A log call made without looking whether there is a logger.
LogIfUnguarded(logger, message) ==
  << LogCall(logger, "log", message) >>

\* The log call a method makes when the instance has a logger.
LogIf(logger, message) ==
  IF logger # NoLogger THEN << LogCall(logger, "log", message) >> ELSE << >>

\* One call on a collaborator, as an entry of the order of calls of a step.
Step(kind, obj) ==
  [kind |-> kind, obj |-> obj]

\* The logger calls of instance, as entries of the order of calls.
LogSteps(logs, instance) ==
  [i \in 1..Len(logs) |-> Step(logs[i].level, instance)]

\* The monitor after a call other than start/pause/resume in sequence.
PhaseAfterConstruct ==
  IF phase.tag = "constructing" THEN phase
  ELSE [tag |-> "other", self |-> NULL, first |-> NULL]

Construct(modelData, detectorData, recordingProgram, logger) ==
  LET self == Len(instances) + 1 IN
  /\ Len(instances) < MaxListeners
  /\ instances' = Append(instances, [logger |-> logger])
  /\ modelsHeap' = Append(modelsHeap, AddedModels(modelData))
  /\ models' = self
  /\ defaultModel' = MergedDefault(defaultModel, modelData, ModelCount(modelData))
  /\ defaultDetector' = Assign(Assign(defaultDetector, detectorData), [models |-> self])
  /\ detectorOptions' = "defaultDetector"
  /\ recorders' = Append(recorders,
        [options |-> RecorderOptions(recordingProgram), logger |-> logger])
  /\ audioRecorder' = self
  /\ lstate' = Append(lstate, "Idle")
  /\ conn' = Append(conn, NULL)
  /\ given' = Append(given,
        [modelData |-> modelData, detectorData |-> detectorData,
         recordingProgram |-> recordingProgram, logger |-> logger])
  /\ phase' = PhaseAfterConstruct
  /\ out' = [NoOut EXCEPT !.op = "construct", !.self = self, !.ret = self,
                          !.logs = LogIf(logger, "HotwordDetector initialized."),
                          !.steps = << Step("newModels", self), Step("newRecorder", self) >>
                             \o LogSteps(LogIf(logger, "HotwordDetector initialized."), self)]
  /\ UNCHANGED << detector, detectors, pipes >>

----------------------------------------------------------------------------
(* setupDetector(instance) and the four forwarding handlers.                *)

\* A setupDetector that drops the current detector without reset().
ResetNothing ==
  detectors

\* detector.reset() on the current detector, when there is one.
ResetCurrent ==
  IF detector # NULL
    THEN [detectors EXCEPT ![detector].resets = @ + 1]
    ELSE detectors

\* A detector whose handlers are registered twice.
NewDetectorWiredTwice(instance) ==
  [options  |-> Deref(detectorOptions),
   handlers |-> [sig \in Signals |-> << instance, instance >>],
   resets   |-> 0]

\* The Detector that setupDetector creates: built from the options object as
\* it is now, with one handler per signal, each closed over `instance`.
NewDetector(instance) ==
  [options  |-> Deref(detectorOptions),
   handlers |-> [sig \in Signals |-> << instance >>],
   resets   |-> 0]

\* A setupDetector that keeps the current detector when there is one.
SetupDetectorReusing(instance) ==
  IF detector # NULL THEN ResetCurrent ELSE Append(ResetCurrent, NewDetector(instance))

\* The Detector objects after setupDetector(instance); the new one is last.
SetupDetector(instance) ==
  Append(ResetCurrent, NewDetector(instance))

\* The calls of setupDetector in their order: reset() of the current
\* detector when there is one, then the construction of detector d.
SetupSteps(d) ==
  (IF detector # NULL THEN << Step("reset", detector) >> ELSE << >>)
    \o << Step("new", d) >>

\* A hotword handler that passes on the index and the hotword but not the
\* buffer.
HandlerEmitWithoutBuffer(instance, sig, args) ==
  CASE sig = "error"   ->
         [instance |-> instance, event |-> "error", args |-> << DetectorErrorMessage >>]
    [] sig = "hotword" ->
         [instance |-> instance, event |-> "hotword", args |-> << args[1], args[2] >>]
    [] sig = "silence" ->
         [instance |-> instance, event |-> "silence", args |-> << >>]
    [] sig = "sound"   ->
         [instance |-> instance, event |-> "sound", args |-> << args[1] >>]

\* The instance.emit call of the handler of signal sig, called with args.
HandlerEmit(instance, sig, args) ==
  CASE sig = "error"   ->
         [instance |-> instance, event |-> "error", args |-> << DetectorErrorMessage >>]
    [] sig = "hotword" ->
         [instance |-> instance, event |-> "hotword",
          args |-> << args[1], args[2], args[3] >>]
    [] sig = "silence" ->
         [instance |-> instance, event |-> "silence", args |-> << >>]
    [] sig = "sound"   ->
         [instance |-> instance, event |-> "sound", args |-> << args[1] >>]

\* The logger calls of the handler of signal sig.
HandlerLogs(instance, sig, args) ==
  LET logger == instances[instance].logger IN
  IF logger = NoLogger THEN << >>
  ELSE CASE sig = "error"   -> << LogCall(logger, "warn", DetectorErrorMessage) >>
         [] sig = "hotword" ->
              << LogCall(logger, "log",
                   [text |-> "HotwordDetector; hotword detected", index |-> args[1],
                    hotword |-> args[2]]) >>
         [] OTHER -> << >>

\* EventEmitter.emit: an 'error' event is thrown when the emitter has no
\* listener for it; listened tells whether the caller has one registered.
EmitThrows(event, listened) ==
  event = "error" /\ ~listened

\* The detector emits a signal: its handlers run in order of registration;
\* a handler that throws ends the dispatch.
RECURSIVE Dispatch(_, _, _, _)
Dispatch(handlers, sig, args, listened) ==
  IF handlers = << >>
    THEN [emits |-> << >>, logs |-> << >>, steps |-> << >>, threw |-> FALSE]
    ELSE LET instance == Head(handlers)
             e == HandlerEmit(instance, sig, args)
             l == HandlerLogs(instance, sig, args)
             st == LogSteps(l, instance) \o << Step("emit", instance) >>
         IN  IF EmitThrows(e.event, listened)
               THEN [emits |-> << e >>, logs |-> l, steps |-> st, threw |-> TRUE]
               ELSE LET rest == Dispatch(Tail(handlers), sig, args, listened)
                    IN  [emits |-> << e >> \o rest.emits, logs |-> l \o rest.logs,
                         steps |-> st \o rest.steps, threw |-> rest.threw]

\* The detection engine raises signal sig with payload args on detector d,
\* at a moment when the caller has (listened) or has not an 'error' listener
\* on the instance: the caller adds and removes listeners as it likes.
RaiseSignal(d, sig, args, listened) ==
  LET r == Dispatch(detectors[d].handlers[sig], sig, args, listened) IN
  /\ d \in 1..Len(detectors)
  /\ out' = [NoOut EXCEPT !.op = "signal", !.det = d, !.sig = sig, !.args = args,
                          !.listened = listened,
                          !.emits = r.emits, !.logs = r.logs, !.steps = r.steps,
                          !.threw = r.threw]
  /\ UNCHANGED << defaultModel, defaultDetector, audioRecorder, models, detector,
                  detectorOptions, instances, modelsHeap, recorders, detectors,
                  pipes, lstate, conn, given, phase >>

----------------------------------------------------------------------------
(* start(), stop(), pause(), resume()                                       *)

\* A pause() that stops the recorder.
CommandStoppingOnPause(cmd) ==
  [recorder |-> audioRecorder, cmd |-> IF cmd = "pause" THEN "stop" ELSE cmd]

\* audioRecorder.<cmd>() on the recorder the module-level variable names.
Command(cmd) ==
  [recorder |-> audioRecorder, cmd |-> cmd]

\* stream.pipe(d) on the stream of the current recorder.
Pipe(d) ==
  pipes \cup { << audioRecorder, d >> }

\* An unpipe that detaches nothing.
UnpipeNothing(d) ==
  pipes

\* stream.unpipe(d) on the stream of the current recorder; without a
\* destination every destination is detached.
Unpipe(d) ==
  IF d = NULL
    THEN { p \in pipes : p[1] # audioRecorder }
    ELSE pipes \ { << audioRecorder, d >> }

\* The monitor follows a process whose calls so far are constructions
\* followed by start(), pause(), resume() on one instance.
PhaseAfter(op, self, d) ==
  CASE op = "start" /\ phase.tag = "constructing" ->
         [tag |-> "started", self |-> self, first |-> d]
    [] op = "pause" /\ phase.tag = "started" /\ phase.self = self ->
         [phase EXCEPT !.tag = "paused"]
    [] op = "resume" /\ phase.tag = "paused" /\ phase.self = self ->
         [phase EXCEPT !.tag = "resumed"]
    [] OTHER -> [tag |-> "other", self |-> NULL, first |-> NULL]

\* start() and resume(): setupDetector(this), command the recorder, pipe.
Connect(self, cmd, message, state) ==
  LET d == Len(detectors) + 1 IN
  /\ self \in 1..Len(instances)
  /\ Len(detectors) < MaxDetectors
  /\ detectors' = SetupDetector(self)
  /\ detector' = d
  /\ pipes' = Pipe(d)
  /\ lstate' = [lstate EXCEPT ![self] = state]
  /\ conn' = [conn EXCEPT ![self] = d]
  /\ phase' = PhaseAfter(cmd, self, d)
  /\ out' = [NoOut EXCEPT !.op = cmd, !.self = self, !.det = d, !.ret = self,
                          !.cmds = << Command(cmd) >>,
                          !.logs = LogIf(instances[self].logger, message),
                          !.steps = SetupSteps(d)
                             \o << Step(cmd, audioRecorder), Step("pipe", d) >>
                             \o LogSteps(LogIf(instances[self].logger, message), self)]
  /\ UNCHANGED << defaultModel, defaultDetector, audioRecorder, models,
                  detectorOptions, instances, modelsHeap, recorders, given >>

\* stop() and pause() without their `return this`.
DisconnectReturningNothing(self, cmd, message, state) ==
  /\ self \in 1..Len(instances)
  /\ pipes' = Unpipe(detector)
  /\ lstate' = [lstate EXCEPT ![self] = state]
  /\ phase' = PhaseAfter(cmd, self, detector)
  /\ out' = [NoOut EXCEPT !.op = cmd, !.self = self, !.det = detector, !.ret = NULL,
                          !.cmds = << Command(cmd) >>,
                          !.logs = LogIf(instances[self].logger, message),
                          !.steps = << Step(cmd, audioRecorder), Step("unpipe", detector) >>
                             \o LogSteps(LogIf(instances[self].logger, message), self)]
  /\ UNCHANGED << defaultModel, defaultDetector, audioRecorder, models, detector,
                  detectorOptions, instances, modelsHeap, recorders, detectors,
                  conn, given >>

\* stop() and pause(): command the recorder, unpipe the current detector.
Disconnect(self, cmd, message, state) ==
  /\ self \in 1..Len(instances)
  /\ pipes' = Unpipe(detector)
  /\ lstate' = [lstate EXCEPT ![self] = state]
  /\ phase' = PhaseAfter(cmd, self, detector)
  /\ out' = [NoOut EXCEPT !.op = cmd, !.self = self, !.det = detector, !.ret = self,
                          !.cmds = << Command(cmd) >>,
                          !.logs = LogIf(instances[self].logger, message),
                          !.steps = << Step(cmd, audioRecorder), Step("unpipe", detector) >>
                             \o LogSteps(LogIf(instances[self].logger, message), self)]
  /\ UNCHANGED << defaultModel, defaultDetector, audioRecorder, models, detector,
                  detectorOptions, instances, modelsHeap, recorders, detectors,
                  conn, given >>

Start(self) ==
  Connect(self, "start", "HotwordDetector: Started detecting.", "Listening")

Stop(self) ==
  Disconnect(self, "stop", "HotwordDetector: Stopped detecting.", "Stopped")

Pause(self) ==
  Disconnect(self, "pause", "HotwordDetector: Paused detecting.", "Paused")

Resume(self) ==
  Connect(self, "resume", "HotwordDetector: Resumed detecting.", "Listening")

----------------------------------------------------------------------------
(* Specification of the lifecycle: a few constructions, then any calls.     *)

\* Constructor arguments of the lifecycle specification: the bare
\* construction, and one with a model, a detector override and a logger.
LifecycleInputs ==
  { [modelData |-> << >>, detectorData |-> << >>,
     recordingProgram |-> "", logger |-> NoLogger],
    [modelData |-> << [hotwords |-> "alexa"] >>, detectorData |-> [audioGain |-> "2.0"],
     recordingProgram |-> "arecord", logger |-> "console"] }

NextConstruct ==
  \E a \in LifecycleInputs :
     Construct(a.modelData, a.detectorData, a.recordingProgram, a.logger)

NextStart == \E self \in 1..MaxListeners : Start(self)

NextStop == \E self \in 1..MaxListeners : Stop(self)

NextPause == \E self \in 1..MaxListeners : Pause(self)

NextResume == \E self \in 1..MaxListeners : Resume(self)

NextSignal ==
  \E d \in 1..MaxDetectors, sig \in Signals :
     \E args \in SignalArgs(sig), listened \in ListenedChoices(sig) :
        d \in 1..Len(detectors) /\ RaiseSignal(d, sig, args, listened)

Next ==
  \/ NextConstruct
  \/ NextStart
  \/ NextStop
  \/ NextPause
  \/ NextResume
  \/ NextSignal

Spec == Init /\ [][Next]_vars

----------------------------------------------------------------------------
(* Specification of construction alone, over all the inputs.                *)

NextConfig ==
  \E modelData \in ModelDataInputs, detectorData \in DetectorDataInputs,
     recordingProgram \in ProgramInputs, logger \in Loggers :
       Construct(modelData, detectorData, recordingProgram, logger)

SpecConfig == Init /\ [][NextConfig]_vars

----------------------------------------------------------------------------
(* Properties of construction, checked under SpecConfig.                    *)

\* The construction that the last step performed, or NULL.
Constructed == IF out.op = "construct" THEN out.self ELSE NULL

\* C1: the collection a construction resolves has max(1, |M|) entries, and
\* for an empty M its one entry equals the built-in default model, also
\* when earlier constructions were given overrides.
C1_ResolvedCollectionSize ==
  \A l \in 1..Len(instances) :
    Constructed = l =>
      /\ Len(Resolved(l)) = Max(1, Len(given[l].modelData))
      /\ Len(given[l].modelData) = 0 => Resolved(l)[1] = BuiltinModel

\* One model spec that sets exactly one field.
SingleFieldOverride(modelData) ==
  Len(modelData) = 1 /\ Cardinality(DOMAIN modelData[1]) = 1

\* C2: of two constructions made one after the other with different
\* single-field overrides, the second's model has, in every field it does
\* not set, the built-in default value (a field the built-in default lacks
\* stays absent).
C2_SharedDefaultUnchanged ==
  \A l \in 2..Len(instances) :
    ( /\ Constructed = l
      /\ SingleFieldOverride(given[l - 1].modelData)
      /\ SingleFieldOverride(given[l].modelData)
      /\ given[l - 1].modelData # given[l].modelData )
    => \A f \in (DOMAIN Resolved(l)[1]) \ (DOMAIN given[l].modelData[1]) :
         f \in DOMAIN BuiltinModel /\ Resolved(l)[1][f] = BuiltinModel[f]

\* C3: in a construction with model specs M1..Mn the i-th resolved model is
\* the built-in default overlaid with the fields of Mi and of no other Mj,
\* whatever was merged after it.
C3_EachModelMergedAlone ==
  \A l \in 1..Len(instances) :
    (Constructed = l /\ Len(given[l].modelData) >= 1) =>
      \A i \in 1..Len(given[l].modelData) :
        Resolved(l)[i] = Assign(BuiltinModel, given[l].modelData[i])

----------------------------------------------------------------------------
(* Properties of the lifecycle, checked under Spec.                         *)

\* The detectors some stream is piped into.
Connected == { p[2] : p \in pipes }

\* C4: while an instance is listening, a hotword, sound or silence signal of
\* the detector its start()/resume() created is emitted by that instance
\* exactly once, with the payload of the signal, and nothing else is emitted.
C4_SignalForwardedOnceUnchanged ==
  \A l \in 1..Len(instances) :
    ( /\ out.op = "signal"
      /\ out.sig \in {"hotword", "sound", "silence"}
      /\ lstate[l] = "Listening"
      /\ out.det = conn[l] )
    => /\ out.emits = << [instance |-> l, event |-> out.sig, args |-> out.args] >>
       /\ ~out.threw

\* Witness of C4: a listening instance has just re-emitted a hotword signal.
C4_Witness ==
  \E l \in 1..Len(instances) :
    /\ out.op = "signal" /\ out.sig = "hotword"
    /\ lstate[l] = "Listening" /\ out.det = conn[l]
    /\ out.det \in Connected
    /\ Len(out.emits) = 1 /\ out.emits[1].args = << 1, "alexa", "buf1" >>

\* C5: once stop() or pause() of an instance has returned, and until its
\* next start()/resume(), a signal of the detector that instance had
\* connected produces no event.
C5_SilentAfterStopOrPause ==
  \A l \in 1..Len(instances) :
    ( /\ out.op = "signal"
      /\ lstate[l] \in {"Stopped", "Paused"}
      /\ conn[l] # NULL
      /\ out.det = conn[l] )
    => out.emits = << >>

\* C6: after constructions followed by start(); pause(); resume() on one
\* instance, the stream is piped into exactly one detector, which is the
\* one resume() created and not the one start() created, and a signal of it
\* produces exactly one event.
C6_OneFreshDetectorAfterResume ==
  phase.tag = "resumed" =>
    /\ Cardinality(pipes) = 1
    /\ Connected = { detector }
    /\ detector = conn[phase.self]
    /\ detector # phase.first
    /\ (out.op = "signal" /\ out.det = detector) => Len(out.emits) = 1

\* Witness of C6: after start(); pause(); resume() the fresh detector raised
\* a signal and one event came out.
C6_Witness ==
  /\ phase.tag = "resumed"
  /\ out.op = "signal" /\ out.det = detector /\ out.sig = "sound"
  /\ detector # phase.first
  /\ Len(out.emits) = 1

\* C7: a signal of a detector that a later start()/resume() has replaced
\* produces no event.
C7_SupersededDetectorSilent ==
  (out.op = "signal" /\ out.det # detector) => out.emits = << >>

\* C8: each capture stream is piped into at most one detector, and start()
\* and resume() pipe only into the detector they have just created.
C8_AtMostOneConnection ==
  /\ \A r \in 1..Len(recorders) : Cardinality({ p \in pipes : p[1] = r }) <= 1
  /\ out.op \in {"start", "resume"} =>
       /\ out.det = Len(detectors)
       /\ detectors[out.det].resets = 0

\* C9: an error signal of a connected detector makes the instance emit one
\* error event with the fixed message, warn once if it has a logger, throw
\* nothing whether or not an error listener is registered, and command the
\* capture source to nothing.
C9_ErrorSignalIsNeverThrown ==
  (out.op = "signal" /\ out.sig = "error" /\ out.det \in Connected) =>
    /\ \E l \in 1..Len(instances) :
         /\ out.emits =
              << [instance |-> l, event |-> "error", args |-> << DetectorErrorMessage >>] >>
         /\ out.logs = IF instances[l].logger # NoLogger
                         THEN << LogCall(instances[l].logger, "warn", DetectorErrorMessage) >>
                         ELSE << >>
    /\ ~out.threw
    /\ out.cmds = << >>

\* C10: start()/resume() of an instance build the detector from the
\* configuration of that instance and command and pipe that instance's own
\* recorder; stop()/pause() command that instance's own recorder and unpipe
\* no detector of another instance; a construction leaves the configuration
\* and the recorder that the earlier instances use as their own.
C10_InstancesDoNotInterfere ==
  /\ out.op \in {"start", "resume"} =>
       /\ detectors[out.det].options.models = out.self
       /\ out.cmds = << [recorder |-> out.self, cmd |-> out.op] >>
       /\ << out.self, out.det >> \in pipes
  /\ out.op \in {"stop", "pause"} =>
       /\ out.cmds = << [recorder |-> out.self, cmd |-> out.op] >>
       /\ out.det \in { NULL, conn[out.self] }
  /\ out.op = "construct" =>
       \A a \in 1..(out.self - 1) :
         Deref(detectorOptions).models = a /\ audioRecorder = a

\* The four lifecycle methods.
Methods == {"start", "stop", "pause", "resume"}

\* C11: an instance constructed without a logger makes no log or warn call
\* in its construction, its four methods and its forwarding handlers, and
\* no call is ever made on the absent logger (which would raise).
C11_NoLoggerNoLogCalls ==
  /\ \A i \in 1..Len(out.logs) : out.logs[i].logger # NoLogger
  /\ (out.op \in Methods \cup {"construct"} /\ instances[out.self].logger = NoLogger) =>
       /\ out.logs = << >>
       /\ \A i \in 1..Len(out.steps) : out.steps[i].kind \notin {"log", "warn"}
       /\ ~out.threw
  /\ ( /\ out.op = "signal"
       /\ \A i \in 1..Len(out.emits) : instances[out.emits[i].instance].logger = NoLogger )
     => /\ out.logs = << >>
        /\ \A i \in 1..Len(out.steps) : out.steps[i].kind \notin {"log", "warn"}

\* Witness of C11: an instance without a logger has forwarded a hotword
\* signal, after its start(), with no log call.
C11_Witness ==
  /\ out.op = "signal" /\ out.sig = "hotword"
  /\ Len(out.emits) = 1
  /\ instances[out.emits[1].instance].logger = NoLogger
  /\ out.logs = << >>

\* C12: start(), stop(), pause() and resume() return the instance they were
\* called on.
C12_MethodsReturnTheInstance ==
  out.op \in Methods => (out.ret = out.self /\ out.ret \in 1..Len(instances))

\* Witness of C12: pause() on the first of two instances returned it.
C12_Witness ==
  /\ out.op = "pause" /\ out.self = 1 /\ out.ret = 1
  /\ Len(instances) = 2 /\ detector # NULL

\* C13: every detector that was replaced has had reset() called exactly
\* once, the current one never; the reset() is the first call of the
\* start()/resume() that replaces it, before the new detector is constructed
\* and piped, and the first start()/resume() of the process calls no reset().
C13_ReplacedDetectorResetOnce ==
  /\ \A d \in 1..Len(detectors) :
       detectors[d].resets = IF d # detector THEN 1 ELSE 0
  /\ (out.op \in {"start", "resume"} /\ Len(detectors) = 1) =>
       /\ out.steps[1] = Step("new", out.det)
       /\ \A i \in 1..Len(out.steps) : out.steps[i].kind # "reset"
  /\ (out.op \in {"start", "resume"} /\ Len(detectors) > 1) =>
       /\ out.steps[1] = Step("reset", out.det - 1)
       /\ out.steps[2] = Step("new", out.det)
       /\ out.steps[4] = Step("pipe", out.det)
       /\ \A i \in 2..Len(out.steps) : out.steps[i].kind # "reset"

\* Witness of C13: a resume() has replaced a detector, which was reset once.
C13_Witness ==
  /\ out.op = "resume" /\ Len(detectors) = 2
  /\ detectors[1].resets = 1 /\ detectors[2].resets = 0
  /\ out.steps[1] = Step("reset", 1)

\* C14: every start() and resume() adds exactly one detector, built from the
\* stored options, and makes it the current one; stop(), pause(), a
\* construction and a signal add none and leave the current one.
C14_OneDetectorPerStartOrResume ==
  [][ /\ out'.op \in {"start", "resume"} =>
           /\ Len(detectors') = Len(detectors) + 1
           /\ detector' = Len(detectors')
           /\ detector' # detector
           /\ detectors'[detector'].options = Deref(detectorOptions)
      /\ out'.op \in {"stop", "pause", "construct", "signal"} =>
           /\ Len(detectors') = Len(detectors)
           /\ detector' = detector ]_vars

\* Witness of C14: two detectors after two start()/resume() calls, and a
\* pause() that left the second one current.
C14_Witness ==
  /\ out.op = "pause"
  /\ Len(detectors) = 2 /\ detector = 2 /\ out.det = 2

\* C15: a constructed instance is Idle; along Idle/Stopped -start->
\* Listening -pause-> Paused -resume-> Listening and Listening -stop->
\* Stopped each method sends exactly one command, the one of its name, to
\* the capture source (the recorder the module holds); start() and resume()
\* pipe its stream into the detector they created, pause() and stop() unpipe
\* the current detector from it.
C15_LifecycleCommands ==
  [][ \A l \in 1..Len(instances') :
        out'.self = l =>
          /\ out'.op = "construct" => (lstate'[l] = "Idle" /\ out'.cmds = << >>)
          /\ ( \/ (out'.op = "start" /\ lstate[l] \in {"Idle", "Stopped"})
               \/ (out'.op = "resume" /\ lstate[l] = "Paused") )
             => /\ lstate'[l] = "Listening"
                /\ out'.cmds = << [recorder |-> audioRecorder, cmd |-> out'.op] >>
                /\ detector' = Len(detectors) + 1
                /\ pipes' = pipes \cup { << audioRecorder, detector' >> }
          /\ (out'.op \in {"pause", "stop"} /\ lstate[l] = "Listening")
             => /\ lstate'[l] = IF out'.op = "pause" THEN "Paused" ELSE "Stopped"
                /\ out'.cmds = << [recorder |-> audioRecorder, cmd |-> out'.op] >>
                /\ << audioRecorder, detector >> \notin pipes'
                /\ pipes' = pipes \ { << audioRecorder, detector >> } ]_vars

\* Witness of C15: a listening instance was paused: one pause command, and
\* the stream is piped into nothing.
C15_Witness ==
  /\ out.op = "pause" /\ lstate[out.self] = "Paused"
  /\ conn[out.self] = detector
  /\ out.cmds = << [recorder |-> audioRecorder, cmd |-> "pause"] >>
  /\ pipes = {}

\* The log line of each operation, src/index.js:96,110,123,136,150.
TransitionMessage(op) ==
  CASE op = "construct" -> "HotwordDetector initialized."
    [] op = "start"     -> "HotwordDetector: Started detecting."
    [] op = "stop"      -> "HotwordDetector: Stopped detecting."
    [] op = "pause"     -> "HotwordDetector: Paused detecting."
    [] op = "resume"    -> "HotwordDetector: Resumed detecting."

\* C17: an instance constructed with a logger makes exactly one log call in
\* its construction and in each start(), stop(), pause() and resume(), with
\* the line of that operation; it is the last call of the method, after its
\* pipe or unpipe.
C17_OneLogCallPerOperation ==
  (out.op \in Methods \cup {"construct"} /\ instances[out.self].logger # NoLogger) =>
    LET n == Len(out.steps) IN
    /\ out.logs = << LogCall(instances[out.self].logger, "log", TransitionMessage(out.op)) >>
    /\ out.steps[n] = Step("log", out.self)
    /\ \A i \in 1..(n - 1) : out.steps[i].kind \notin {"log", "warn"}
    /\ out.op \in Methods => out.steps[n - 1].kind \in {"pipe", "unpipe"}

\* Witness of C17: resume() of an instance with a logger logged its line.
C17_Witness ==
  /\ out.op = "resume" /\ instances[out.self].logger = "console"
  /\ Len(out.logs) = 1 /\ out.logs[1].message = "HotwordDetector: Resumed detecting."

\* C18: the detector options a construction resolves are the built-in
\* default resource overlaid with the overrides given to that construction,
\* plus its own model collection; no field of an earlier override is in them.
C18_DetectorConfigFromOwnOverrides ==
  \A l \in 1..Len(instances) :
    Constructed = l =>
      Deref(detectorOptions) =
        Assign(Assign(BuiltinDetector, given[l].detectorData), [models |-> l])

\* C19: a construction creates no detector, sends no command to a capture
\* source, pipes nothing and emits no event; the recorder it builds has
\* sample rate 16000, threshold 0 and the given program, or 'rec' without one.
C19_ConstructionOnlyBuilds ==
  [][ out'.op = "construct" =>
        LET l == out'.self
            program == given'[l].recordingProgram
        IN  /\ detectors' = detectors
            /\ detector' = detector
            /\ pipes' = pipes
            /\ out'.cmds = << >>
            /\ out'.emits = << >>
            /\ \A i \in 1..Len(out'.steps) :
                 out'.steps[i].kind \in {"newModels", "newRecorder", "log"}
            /\ Len(recorders') = Len(recorders) + 1
            /\ \A r \in 1..Len(recorders) : recorders'[r] = recorders[r]
            /\ recorders'[l].options =
                 [program    |-> IF program = "" THEN "rec" ELSE program,
                  sampleRate |-> 16000,
                  threshold  |-> 0] ]_vars

\* Witness of C19: an instance was constructed without a program while a
\* detector was piped; its recorder records with 'rec'.
C19_Witness ==
  /\ out.op = "construct"
  /\ pipes # {} /\ detector # NULL
  /\ recorders[out.self].options.program = "rec"

\* C20: every detector has exactly one handler for each of error, hotword,
\* silence and sound, all of the instance whose start()/resume() created it,
\* and no step changes the handlers of a detector that exists.
C20_Wired ==
  /\ \A d \in 1..Len(detectors) :
       /\ DOMAIN detectors[d].handlers = {"error", "hotword", "silence", "sound"}
       /\ \A sig \in DOMAIN detectors[d].handlers : Len(detectors[d].handlers[sig]) = 1
  /\ \A l \in 1..Len(instances) :
       conn[l] # NULL =>
         \A sig \in DOMAIN detectors[conn[l]].handlers :
           detectors[conn[l]].handlers[sig] = << l >>

C20_OneHandlerPerSignal ==
  /\ []C20_Wired
  /\ [][ \A d \in 1..Len(detectors) :
           detectors'[d].handlers = detectors[d].handlers ]_vars

\* Witness of C20: the older of two detectors raised a signal and exactly
\* one event came out.
C20_Witness ==
  /\ Len(detectors) = 2
  /\ out.op = "signal" /\ out.det = 1 /\ out.sig = "silence"
  /\ Len(out.emits) = 1

====
